---- MODULE Spec2Model ----
(***************************************************************************)
(* Model of pandasai/llm/base.py: the LLM base class (code extraction,     *)
(* system-prompt prepending, generate_code) and the BaseGoogle adapter     *)
(* (parameter update, parameter validation, call).                         *)
(*                                                                         *)
(* A text (Python str) is a sequence of one-character strings over the     *)
(* alphabet  BT p y t h o n <space> <newline>,  where BT stands for the    *)
(* backtick, U+0060 (the lexer accepts no backtick inside a string).       *)
(* Numbers are rationals [n |-> numerator, d |-> denominator] with d > 0,  *)
(* so that 0.8 is exact.                                                   *)
(***************************************************************************)
EXTENDS Integers, Sequences, FiniteSets, TLC

VARIABLES
    cls,                \* class of the adapter instance
    temperature,        \* BaseGoogle.temperature
    top_p,              \* BaseGoogle.top_p
    top_k,              \* BaseGoogle.top_k
    max_output_tokens,  \* BaseGoogle.max_output_tokens
    last_prompt,        \* LLM.last_prompt
    memory,             \* the session's Memory object (a sequence of turns)
    op                  \* frame of the operation in flight: arguments, locals, outcome

vars == <<cls, temperature, top_p, top_k, max_output_tokens, last_prompt, memory, op>>

params == <<temperature, top_p, top_k, max_output_tokens>>

(***************************************************************************)
(* Values                                                                  *)
(***************************************************************************)
\* Python's None
None == [none |-> TRUE]

\* a Python str object holding the text t
Str(t) == [str |-> t]

Num(n, d) == [n |-> n, d |-> d]

Whole(n) == Num(n, 1)

\* a <= b on rationals with positive denominators
Le(a, b) == a.n * b.d <= b.n * a.d

(***************************************************************************)
(* Text primitives (str methods and the two regular expressions)           *)
(***************************************************************************)
\* the backtick character, U+0060
BT == "BT"

Whitespace == {" ", "\n"}

PY == <<"p", "y">>

PYTHON == <<"p", "y", "t", "h", "o", "n">>

NOT == <<"n", "o", "t">>

\* the default value of _extract_code's separator argument
DefaultSeparator == <<BT, BT, BT>>

\* str.startswith
StartsWith(s, p) == Len(s) >= Len(p) /\ SubSeq(s, 1, Len(p)) = p

\* s[k:]
Drop(s, k) == SubSeq(s, k + 1, Len(s))

\* str.find from a position: the least index i >= from where sep occurs, 0 if none
RECURSIVE Find(_, _, _)
Find(s, sep, from) ==
    IF from + Len(sep) - 1 > Len(s) THEN 0
    ELSE IF SubSeq(s, from, from + Len(sep) - 1) = sep THEN from
    ELSE Find(s, sep, from + 1)

\* the test  sep in s
Contains(s, sep) == Find(s, sep, 1) # 0

\* str.split(sep): the segments between non-overlapping occurrences, left to right
RECURSIVE Split(_, _)
Split(s, sep) ==
    LET i == Find(s, sep, 1)
    IN  IF i = 0 THEN <<s>>
        ELSE <<SubSeq(s, 1, i - 1)>> \o Split(Drop(s, i + Len(sep) - 1), sep)

RECURSIVE LStrip(_)
LStrip(s) == IF s # <<>> /\ Head(s) \in Whitespace THEN LStrip(Tail(s)) ELSE s

RECURSIVE RStrip(_)
RStrip(s) ==
    IF s # <<>> /\ s[Len(s)] \in Whitespace THEN RStrip(SubSeq(s, 1, Len(s) - 1)) ELSE s

\* str.strip()
Strip(s) == RStrip(LStrip(s))

\* the text matched by r"^(python|py)" at the start of code, <<>> if no match
TagMatch(code) ==
    IF StartsWith(code, PYTHON) THEN PYTHON
    ELSE IF StartsWith(code, PY) THEN PY
    ELSE <<>>

NoNewline(s, from, to) == \A i \in from..to : s[i] # "\n"

\* r"^BT.*BT$": the index of the closing backtick of the match, 0 if no match.
\* "." does not match a newline; "$" matches at the end and before a final newline.
WrapMatch(code) ==
    LET n == Len(code)
    IN  IF n >= 2 /\ code[1] = BT
        THEN IF code[n] = BT /\ NoNewline(code, 2, n - 1) THEN n
             ELSE IF n >= 3 /\ code[n] = "\n" /\ code[n - 1] = BT
                     /\ NoNewline(code, 2, n - 2) THEN n - 1
             ELSE 0
        ELSE 0

\* _polish_code without its final strip()
_polish_code_NoStrip(code) ==
    LET a == IF TagMatch(code) # <<>> THEN Drop(code, Len(TagMatch(code))) ELSE code
        j == WrapMatch(a)
    IN  IF j # 0 THEN SubSeq(a, 2, j - 1) \o Drop(a, j) ELSE a

\* LLM._polish_code
_polish_code(code) ==
    LET a == IF TagMatch(code) # <<>> THEN Drop(code, Len(TagMatch(code))) ELSE code
        j == WrapMatch(a)
        b == IF j # 0 THEN SubSeq(a, 2, j - 1) \o Drop(a, j) ELSE a
    IN  Strip(b)

(***************************************************************************)
(* ast.parse on the alphabet: the text is a module when every line is      *)
(* blank, or is unindented and reads  not* NAME  (the only keyword the     *)
(* letters can spell is "not"; a backtick is never valid).  This agrees    *)
(* with CPython's ast.parse on every text over the alphabet of length <= 6.*)
(***************************************************************************)
NonEmpty(ws) == SelectSeq(ws, LAMBDA w : w # <<>>)

LineParses(line) ==
    LET ws == NonEmpty(Split(line, <<" ">>))
    IN  /\ \A i \in 1..Len(line) : line[i] # BT
        /\ \/ ws = <<>>
           \/ /\ line[1] # " "
              /\ ws[Len(ws)] # NOT
              /\ \A i \in 1..(Len(ws) - 1) : ws[i] = NOT

\* ast.parse(string) raises no SyntaxError
Parses(string) ==
    LET ls == Split(string, <<"\n">>)
    IN  \A i \in 1..Len(ls) : LineParses(ls[i])

\* LLM._is_python_code
_is_python_code(string) == Parses(string)

\* an exception raised to the caller
Raised(e) == [raised |-> e]

\* a value returned to the caller
Returned(v) == [value |-> v]

\* the candidate taken from the last segment of the split
Candidate_LastSegment(response, separator) ==
    IF Contains(response, separator) /\ Len(Split(response, separator)) > 1
    THEN Split(response, separator)[Len(Split(response, separator))]
    ELSE response

\* the candidate taken only when a pair of separators encloses it
Candidate_NeedsPair(response, separator) ==
    IF Contains(response, separator) /\ Len(Split(response, separator)) > 2
    THEN Split(response, separator)[2]
    ELSE response

\* the local variable code of _extract_code after the separator test (lines 116-120)
Candidate(response, separator) ==
    IF Contains(response, separator) /\ Len(Split(response, separator)) > 1
    THEN Split(response, separator)[2]
    ELSE response

\* _extract_code without the _is_python_code test
_extract_code_Unvalidated(response, separator) ==
    Returned(Str(_polish_code(Candidate(response, separator))))

\* LLM._extract_code
_extract_code(response, separator) ==
    LET code == _polish_code(Candidate(response, separator))
    IN  IF ~_is_python_code(code) THEN Raised("NoCodeFoundError") ELSE Returned(Str(code))

(***************************************************************************)
(* prepend_system_prompt and its collaborators                             *)
(***************************************************************************)
\* Memory's truth value: a Memory supports an emptiness check, and an absent
\* memory (None) is false
Truthy(mem) == mem # None /\ mem.messages # <<>>

RECURSIVE JoinLines(_)
JoinLines(ms) == IF ms = <<>> THEN <<>> ELSE Head(ms) \o <<"\n">> \o JoinLines(Tail(ms))

\* GenerateSystemMessagePrompt(memory=memory).to_string(): the header built from
\* the memory's turns
SystemMessage(mem) == JoinLines(mem.messages)

\* LLM.get_system_prompt
get_system_prompt(mem) == SystemMessage(mem)

\* prepend_system_prompt with the operands of + exchanged
prepend_system_prompt_Appended(prompt, mem) ==
    IF Truthy(mem) THEN prompt \o get_system_prompt(mem) ELSE prompt

\* LLM.prepend_system_prompt
prepend_system_prompt(prompt, mem) ==
    IF Truthy(mem) THEN get_system_prompt(mem) \o prompt ELSE prompt

(***************************************************************************)
(* call and generate_code                                                  *)
(***************************************************************************)
\* BasePrompt.to_string()
to_string(instruction) == instruction.text

IsRaised(out) == "raised" \in DOMAIN out

\* what _generate_text can do in an adapter of class c, when a concrete provider
\* answers with one of the texts: BaseGoogle._generate_text itself only raises
_generate_text(c, texts) ==
    IF c = "Provider"
    THEN {Raised("ProviderError")} \cup {Returned(Str(t)) : t \in texts}
    ELSE {Raised("MethodNotImplementedError")}

\* LLM.call
LLM_call(lp) ==
    [last_prompt |-> lp, delegated |-> FALSE, prompt |-> None, memory |-> None,
     out |-> Raised("MethodNotImplementedError")]

\* BaseGoogle.call recording the prompt only once _generate_text has returned
BaseGoogle_call_RecordsOnReturn(lp, instruction, context, gen) ==
    LET prompt == Str(to_string(instruction))
        mem    == IF context # None THEN context.memory ELSE None
    IN  [last_prompt |-> IF IsRaised(gen) THEN lp ELSE prompt, delegated |-> TRUE,
         prompt |-> prompt, memory |-> mem, out |-> gen]

\* BaseGoogle.call on an adapter whose last_prompt is lp, gen being what
\* _generate_text does
BaseGoogle_call(lp, instruction, context, gen) ==
    LET prompt == Str(to_string(instruction))
        mem    == IF context # None THEN context.memory ELSE None
    IN  [last_prompt |-> prompt, delegated |-> TRUE, prompt |-> prompt, memory |-> mem,
         out |-> gen]

\* self.call(instruction, context) on an adapter of class c whose last_prompt is lp
call(c, lp, instruction, context, gen) ==
    IF c = "LLM" THEN LLM_call(lp) ELSE BaseGoogle_call(lp, instruction, context, gen)

\* LLM.generate_code
generate_code(c, lp, instruction, context, gen) ==
    LET r == call(c, lp, instruction, context, gen)
    IN  IF IsRaised(r.out)
        THEN [last_prompt |-> r.last_prompt, called |-> r.out, extracted |-> FALSE,
              out |-> r.out]
        ELSE [last_prompt |-> r.last_prompt, called |-> r.out, extracted |-> TRUE,
              out |-> _extract_code(r.out.value.str, DefaultSeparator)]

(***************************************************************************)
(* BaseGoogle parameters                                                   *)
(***************************************************************************)
\* BaseGoogle._valid_params
_valid_params == {"temperature", "top_p", "top_k", "max_output_tokens"}

\* _set_params without the allow-list test
_set_params_AnyKey(key, kwargs, old) ==
    IF key \in DOMAIN kwargs THEN kwargs[key] ELSE old

\* one attribute after the loop of _set_params: setattr for an allow-listed key
_set_params(key, kwargs, old) ==
    IF key \in DOMAIN kwargs /\ key \in _valid_params THEN kwargs[key] ELSE old

RangeError(message) == [raised |-> "ValueError", message |-> message]

\* _validate testing top_k before top_p
_validate_TopKFirst(t, p, k, m) ==
    IF t # None /\ ~(Le(Whole(0), t) /\ Le(t, Whole(1)))
    THEN RangeError("temperature must be in the range [0.0, 1.0]")
    ELSE IF k # None /\ ~(Le(Whole(0), k) /\ Le(k, Whole(100)))
    THEN RangeError("top_k must be in the range [0.0, 100.0]")
    ELSE IF p # None /\ ~(Le(Whole(0), p) /\ Le(p, Whole(1)))
    THEN RangeError("top_p must be in the range [0.0, 1.0]")
    ELSE IF m # None /\ Le(m, Whole(0))
    THEN RangeError("max_output_tokens must be greater than zero")
    ELSE Returned(None)

\* BaseGoogle._validate
_validate(t, p, k, m) ==
    IF t # None /\ ~(Le(Whole(0), t) /\ Le(t, Whole(1)))
    THEN RangeError("temperature must be in the range [0.0, 1.0]")
    ELSE IF p # None /\ ~(Le(Whole(0), p) /\ Le(p, Whole(1)))
    THEN RangeError("top_p must be in the range [0.0, 1.0]")
    ELSE IF k # None /\ ~(Le(Whole(0), k) /\ Le(k, Whole(100)))
    THEN RangeError("top_k must be in the range [0.0, 100.0]")
    ELSE IF m # None /\ Le(m, Whole(0))
    THEN RangeError("max_output_tokens must be greater than zero")
    ELSE Returned(None)

(***************************************************************************)
(* Bounds and input sets                                                   *)
(***************************************************************************)
\* a response given to _extract_code is a concatenation of at most MaxPieces pieces
MaxPieces == 5

\* a response a provider gives to generate_code has at most MaxResponsePieces pieces
MaxResponsePieces == 2

\* _set_params is given at most MaxKwargs keyword arguments
MaxKwargs == 2

\* the session's memory holds at most MaxTurns turns
MaxTurns == 2

Pieces == {DefaultSeparator, <<BT>>, PY, PYTHON, NOT, <<" ">>, <<"\n">>}

\* the concatenations of at most k pieces
RECURSIVE TextsUpTo(_)
TextsUpTo(k) ==
    IF k = 0 THEN {<<>>}
    ELSE LET shorter == TextsUpTo(k - 1)
         IN  shorter \cup {t \o p : t \in shorter, p \in Pieces}

Texts == TextsUpTo(MaxPieces)

Responses == TextsUpTo(MaxResponsePieces)

\* the texts a provider answers a plain call with (call does not read them)
CallResponses == {<<>>, PY}

Prompts == {[text |-> PY], [text |-> <<"n">>]}

Messages == {<<"o">>, <<"t">>}

EmptyMemory == [messages |-> <<>>]

Classes == {"LLM", "BaseGoogle", "Provider"}

Keys == _valid_params \cup {"last_prompt"}

\* the values _set_params is given for a key: below, at the ends of, inside and
\* above the key's range
KwargValues(key) ==
    CASE key = "temperature"       -> {None, Num(-1, 2), Whole(0), Num(1, 2), Whole(1), Num(3, 2)}
      [] key = "top_p"             -> {None, Num(-1, 2), Whole(0), Num(4, 5), Whole(1), Num(3, 2)}
      [] key = "top_k"             -> {None, Whole(-1), Whole(0), Whole(40), Whole(100), Whole(101)}
      [] key = "max_output_tokens" -> {None, Whole(-1), Whole(0), Whole(1), Whole(1000)}
      [] OTHER                     -> {Str(PY)}

KwargsOn(K) ==
    {kw \in [K -> UNION {KwargValues(k) : k \in K}] : \A k \in K : kw[k] \in KwargValues(k)}

Kwargs == UNION {KwargsOn(K) : K \in {K \in SUBSET Keys : Cardinality(K) <= MaxKwargs}}

(***************************************************************************)
(* The state machine                                                       *)
(***************************************************************************)
\* no operation in flight
Idle == [name |-> "idle"]

\* the class attributes of LLM and BaseGoogle
Defaults ==
    /\ temperature = Whole(0)
    /\ top_p = Num(4, 5)
    /\ top_k = Whole(40)
    /\ max_output_tokens = Whole(1000)
    /\ last_prompt = None

Init ==
    /\ cls \in Classes
    /\ Defaults
    /\ memory = EmptyMemory
    /\ op = Idle

\* the session adds a turn to its memory
MemoryAdd ==
    /\ op = Idle
    /\ Len(memory.messages) < MaxTurns
    /\ \E msg \in Messages : memory' = [messages |-> Append(memory.messages, msg)]
    /\ UNCHANGED <<cls, params, last_prompt, op>>

Call ==
    /\ op = Idle
    /\ \E instruction \in Prompts, context \in {None, [memory |-> memory]},
          gen \in _generate_text(cls, CallResponses) :
          LET r == call(cls, last_prompt, instruction, context, gen)
          IN  /\ last_prompt' = r.last_prompt
              /\ op' = [name |-> "call", instruction |-> instruction, context |-> context,
                        delegated |-> r.delegated, prompt |-> r.prompt,
                        memory |-> r.memory, out |-> r.out]
    /\ UNCHANGED <<cls, params, memory>>

GenerateCode ==
    /\ op = Idle
    /\ \E instruction \in Prompts, context \in {None, [memory |-> memory]},
          gen \in _generate_text(cls, Responses) :
          LET r == generate_code(cls, last_prompt, instruction, context, gen)
          IN  /\ last_prompt' = r.last_prompt
              /\ op' = [name |-> "generate_code", instruction |-> instruction,
                        context |-> context, called |-> r.called,
                        extracted |-> r.extracted, out |-> r.out]
    /\ UNCHANGED <<cls, params, memory>>

PrependSystemPrompt ==
    /\ op = Idle
    /\ \E instruction \in Prompts, mem \in {None, memory} :
          op' = [name |-> "prepend_system_prompt", prompt |-> Str(to_string(instruction)),
                 memory |-> mem,
                 out |-> Returned(Str(prepend_system_prompt(to_string(instruction), mem)))]
    /\ UNCHANGED <<cls, params, last_prompt, memory>>

SetParams ==
    /\ op = Idle
    /\ cls # "LLM"
    /\ \E kwargs \in Kwargs :
          /\ temperature' = _set_params("temperature", kwargs, temperature)
          /\ top_p' = _set_params("top_p", kwargs, top_p)
          /\ top_k' = _set_params("top_k", kwargs, top_k)
          /\ max_output_tokens' = _set_params("max_output_tokens", kwargs, max_output_tokens)
          /\ last_prompt' = _set_params("last_prompt", kwargs, last_prompt)
          /\ op' = [name |-> "_set_params", kwargs |-> kwargs, out |-> Returned(None)]
    /\ UNCHANGED <<cls, memory>>

Validate ==
    /\ op = Idle
    /\ cls # "LLM"
    /\ op' = [name |-> "_validate",
              out |-> _validate(temperature, top_p, top_k, max_output_tokens)]
    /\ UNCHANGED <<cls, params, last_prompt, memory>>

ExtractCode ==
    /\ op = Idle
    /\ \E response \in Texts :
          op' = [name |-> "_extract_code", response |-> Str(response),
                 separator |-> Str(DefaultSeparator),
                 code |-> Str(Candidate(response, DefaultSeparator)),
                 out |-> _extract_code(response, DefaultSeparator)]
    /\ UNCHANGED <<cls, params, last_prompt, memory>>

\* the operation in flight returns or raises to its caller
Return ==
    /\ op # Idle
    /\ op' = Idle
    /\ UNCHANGED <<cls, params, last_prompt, memory>>

\* calls on an adapter within a session
Next == MemoryAdd \/ Call \/ GenerateCode \/ PrependSystemPrompt \/ Return

Spec == Init /\ [][Next]_vars

\* a Google adapter being configured and called
InitParams ==
    /\ cls = "Provider"
    /\ Defaults
    /\ memory = EmptyMemory
    /\ op = Idle

NextParams == SetParams \/ Validate \/ Call \/ Return

SpecParams == InitParams /\ [][NextParams]_vars

\* _extract_code applied to every text
InitExtract ==
    /\ cls = "LLM"
    /\ Defaults
    /\ memory = EmptyMemory
    /\ op = Idle

NextExtract == ExtractCode \/ Return

SpecExtract == InitExtract /\ [][NextExtract]_vars

(***************************************************************************)
(* Properties                                                              *)
(***************************************************************************)
\* the step runs self.call on a Google adapter, directly or from generate_code
CallStep == cls # "LLM" /\ op'.name \in {"call", "generate_code"}

\* what self.call did in the frame of call or of generate_code
CallOutcome(frame) == IF frame.name = "call" THEN frame.out ELSE frame.called

\* C1 as stated: on a Google adapter, a call that returns text sets last_prompt to
\* its instruction's to_string(), and a call whose _generate_text raises leaves
\* last_prompt as it was (it is not a completed call); nothing else changes it.
C1_LastPromptOfCompletedCall ==
    [][IF CallStep /\ ~IsRaised(CallOutcome(op'))
       THEN last_prompt' = Str(to_string(op'.instruction))
       ELSE last_prompt' = last_prompt]_vars

\* C1 amended: on a Google adapter, every call sets last_prompt to its
\* instruction's to_string(), whether _generate_text then returns text or raises;
\* nothing else changes last_prompt.
C1_LastPromptOfLatestCall ==
    [][IF CallStep
       THEN last_prompt' = Str(to_string(op'.instruction))
       ELSE last_prompt' = last_prompt]_vars

\* a call whose _generate_text raised has recorded its prompt
C1_FailedCallRecorded ==
    /\ op.name = "call"
    /\ cls # "LLM"
    /\ IsRaised(op.out)
    /\ last_prompt = Str(to_string(op.instruction))

\* the valid range of each parameter, as the specification states it
InRange(key, v) ==
    /\ v # None
    /\ CASE key = "temperature"       -> 0 <= v.n /\ v.n <= v.d
         [] key = "top_p"             -> 0 <= v.n /\ v.n <= v.d
         [] key = "top_k"             -> 0 <= v.n /\ v.n <= 100 * v.d
         [] key = "max_output_tokens" -> v.n > 0

\* the field of the adapter that a key names
Field(key) ==
    CASE key = "temperature"       -> temperature
      [] key = "top_p"             -> top_p
      [] key = "top_k"             -> top_k
      [] key = "max_output_tokens" -> max_output_tokens

ParamOrder == <<"temperature", "top_p", "top_k", "max_output_tokens">>

ParamNames == {ParamOrder[i] : i \in 1..Len(ParamOrder)}

\* a parameter is set and lies outside its range
OutOfRange(key) == Field(key) # None /\ ~InRange(key, Field(key))

\* C2 as stated: whenever call delegates to _generate_text, the four parameters
\* lie in their valid ranges (a parameter left at None counts as within range).
C2_ParamsInRangeWhenDelegating ==
    (op.name = "call" /\ op.delegated) => \A key \in ParamNames : ~OutOfRange(key)

\* the parameter a range error names
NamedBy(message) ==
    CASE message = "temperature must be in the range [0.0, 1.0]"    -> "temperature"
      [] message = "top_p must be in the range [0.0, 1.0]"          -> "top_p"
      [] message = "top_k must be in the range [0.0, 100.0]"        -> "top_k"
      [] message = "max_output_tokens must be greater than zero"    -> "max_output_tokens"
      [] OTHER                                                      -> "none"

\* C3: _validate succeeds exactly when no set parameter lies outside its range,
\* and otherwise raises a ValueError naming the first parameter, in the order
\* temperature, top_p, top_k, max_output_tokens, that lies outside its range.
C3_ValidateFirstViolation ==
    op.name = "_validate" =>
        /\ (\A key \in ParamNames : ~OutOfRange(key)) <=> (op.out = Returned(None))
        /\ \A i \in 1..Len(ParamOrder) :
              (OutOfRange(ParamOrder[i]) /\ \A j \in 1..(i - 1) : ~OutOfRange(ParamOrder[j]))
              => /\ IsRaised(op.out)
                 /\ op.out.raised = "ValueError"
                 /\ NamedBy(op.out.message) = ParamOrder[i]

\* _validate met top_p and top_k both outside their ranges and named top_p
C3_TwoViolations ==
    /\ op.name = "_validate"
    /\ ~OutOfRange("temperature")
    /\ OutOfRange("top_p")
    /\ OutOfRange("top_k")
    /\ IsRaised(op.out)
    /\ NamedBy(op.out.message) = "top_p"

\* C4: _set_params overwrites exactly the allow-listed fields whose keys are
\* supplied, with the supplied values, raises nothing, and leaves every other
\* allow-listed field, last_prompt and the memory unchanged.
C4_SetParamsFrame ==
    [][op'.name = "_set_params" =>
          /\ \A key \in ParamNames :
                Field(key)' = IF key \in DOMAIN op'.kwargs THEN op'.kwargs[key] ELSE Field(key)
          /\ last_prompt' = last_prompt
          /\ memory' = memory
          /\ op'.out = Returned(None)]_vars

\* _set_params was given a key of the allow-list and one outside it
C4_MixedKeys ==
    /\ op.name = "_set_params"
    /\ DOMAIN op.kwargs = {"temperature", "last_prompt"}
    /\ temperature = op.kwargs["temperature"]
    /\ last_prompt # op.kwargs["last_prompt"]

(***************************************************************************)
(* Properties of the extraction, stated on occurrences of the separator    *)
(***************************************************************************)
ExtractFrame == op.name = "_extract_code"

NoCodeFound == Raised("NoCodeFoundError")

OccursAt(s, sep, i) ==
    i >= 1 /\ i + Len(sep) - 1 <= Len(s) /\ SubSeq(s, i, i + Len(sep) - 1) = sep

\* the first index at which sep occurs in s, 0 when it does not occur
FirstAt(s, sep) ==
    LET I == {i \in 1..Len(s) : OccursAt(s, sep, i)}
    IN  IF I = {} THEN 0 ELSE CHOOSE i \in I : \A j \in I : i <= j

\* the text after the first occurrence of sep
AfterFirst(s, sep) == Drop(s, FirstAt(s, sep) + Len(sep) - 1)

\* the segment between the first occurrence of sep and the next one, or the end
FirstBlock(s, sep) ==
    LET a == AfterFirst(s, sep)
        j == FirstAt(a, sep)
    IN  IF j = 0 THEN a ELSE SubSeq(a, 1, j - 1)

HasSecond(s, sep) == FirstAt(s, sep) # 0 /\ FirstAt(AfterFirst(s, sep), sep) # 0

\* s cut right after its second separator
UpToSecond(s, sep) ==
    SubSeq(s, 1, Len(s) - Len(AfterFirst(AfterFirst(s, sep), sep)))

\* the number of occurrences of sep in s, counted left to right without overlap
RECURSIVE Occurrences(_, _)
Occurrences(s, sep) ==
    IF FirstAt(s, sep) = 0 THEN 0 ELSE 1 + Occurrences(AfterFirst(s, sep), sep)

\* polishing and validating a candidate text
Validated(candidate) ==
    IF Parses(_polish_code(candidate)) THEN Returned(Str(_polish_code(candidate)))
    ELSE NoCodeFound

\* C5: when the separator occurs, the candidate is the segment between its first
\* occurrence and the next one (or the end); the result is that segment polished
\* when the polished segment is valid code and NoCodeFoundError otherwise; and
\* whatever follows the second separator does not change the result.
C5_FirstBlockOnly ==
    (ExtractFrame /\ FirstAt(op.response.str, DefaultSeparator) # 0) =>
        LET r == op.response.str
        IN  /\ op.code = Str(FirstBlock(r, DefaultSeparator))
            /\ op.out = Validated(FirstBlock(r, DefaultSeparator))
            /\ HasSecond(r, DefaultSeparator) =>
                  \A t \in Pieces \cup {<<>>} :
                     _extract_code(UpToSecond(r, DefaultSeparator) \o t, DefaultSeparator)
                        = op.out

\* a tagged block is followed by text after its closing separator, and its code
\* comes back without the tag
C5_TextAfterBlock ==
    /\ ExtractFrame
    /\ HasSecond(op.response.str, DefaultSeparator)
    /\ Len(UpToSecond(op.response.str, DefaultSeparator)) < Len(op.response.str)
    /\ TagMatch(FirstBlock(op.response.str, DefaultSeparator)) # <<>>
    /\ ~IsRaised(op.out)
    /\ op.out.value.str # <<>>

\* C6 as stated: with zero or exactly one occurrence of the separator the
\* candidate that is polished and validated is the entire response.
C6_WholeTextUpToOneSeparator ==
    (ExtractFrame /\ Occurrences(op.response.str, DefaultSeparator) <= 1) =>
        /\ op.code = op.response
        /\ op.out = Validated(op.response.str)

\* C6 amended: with no occurrence of the separator the candidate is the entire
\* response; with exactly one occurrence it is the text after that separator.
C6_WholeTextWithoutSeparator ==
    ExtractFrame =>
        LET r == op.response.str
        IN  /\ Occurrences(r, DefaultSeparator) = 0 =>
                  op.code = op.response /\ op.out = Validated(r)
            /\ Occurrences(r, DefaultSeparator) = 1 =>
                  /\ op.code = Str(AfterFirst(r, DefaultSeparator))
                  /\ op.out = Validated(AfterFirst(r, DefaultSeparator))

\* one separator, text before it, and the code after it is returned
C6_OneSeparator ==
    /\ ExtractFrame
    /\ Occurrences(op.response.str, DefaultSeparator) = 1
    /\ FirstAt(op.response.str, DefaultSeparator) > 1
    /\ op.code # op.response
    /\ ~IsRaised(op.out)
    /\ op.out.value.str # <<>>

\* C7 as stated: a response with no separator whose trimmed content is valid
\* source is returned as that trimmed content, unchanged.
C7_ValidTextUnchanged ==
    (/\ ExtractFrame
     /\ FirstAt(op.response.str, DefaultSeparator) = 0
     /\ Parses(Strip(op.response.str)))
    => op.out = Returned(Str(Strip(op.response.str)))

\* C8 as stated: a response with no separator whose trimmed content is not valid
\* source fails with NoCodeFoundError.
C8_InvalidTextFails ==
    (/\ ExtractFrame
     /\ FirstAt(op.response.str, DefaultSeparator) = 0
     /\ ~Parses(Strip(op.response.str)))
    => op.out = NoCodeFound

\* C8 amended: a response with no separator fails with NoCodeFoundError, and
\* returns no code, when its polished form is not valid source; this covers every
\* invalid text that neither begins with py nor is wrapped in backticks.
C8_InvalidPolishedTextFails ==
    (ExtractFrame /\ FirstAt(op.response.str, DefaultSeparator) = 0) =>
        LET r == op.response.str
        IN  /\ ~Parses(_polish_code(r)) => op.out = NoCodeFound
            /\ (TagMatch(r) = <<>> /\ WrapMatch(r) = 0 /\ ~Parses(Strip(r)))
                  => op.out = NoCodeFound

\* a text beginning with py stays invalid once the tag is removed, and fails
C8_TaggedInvalidText ==
    /\ ExtractFrame
    /\ FirstAt(op.response.str, DefaultSeparator) = 0
    /\ TagMatch(op.response.str) # <<>>
    /\ _polish_code(op.response.str) # <<>>
    /\ op.out = NoCodeFound

(***************************************************************************)
(* Properties of generate_code and prepend_system_prompt                   *)
(***************************************************************************)
Trimmed(s) == s = <<>> \/ (s[1] \notin Whitespace /\ s[Len(s)] \notin Whitespace)

\* C9: generate_code ends in one of three ways: call failed, and that failure is
\* what generate_code raises, extraction not having run; call returned text and
\* generate_code raises NoCodeFoundError; or it returns code that is valid source
\* without leading or trailing whitespace.  A failure carries no result.
C9_GenerateCodeOutcomes ==
    op.name = "generate_code" =>
        /\ \/ IsRaised(op.called) /\ op.out = op.called /\ ~op.extracted
           \/ ~IsRaised(op.called) /\ op.extracted /\ op.out = NoCodeFound
           \/ /\ ~IsRaised(op.called)
              /\ op.extracted
              /\ ~IsRaised(op.out)
              /\ Parses(op.out.value.str)
              /\ Trimmed(op.out.value.str)
        /\ IsRaised(op.out) => "value" \notin DOMAIN op.out

\* generate_code returned code that differs from the provider's text
C9_CodeReturned ==
    /\ op.name = "generate_code"
    /\ ~IsRaised(op.out)
    /\ op.out.value.str # <<>>
    /\ op.out.value # op.called.value

====
